---- MODULE Spec2Model ----
(***************************************************************************)
(* The routing and arbitration core of the GSPro proxy (src/main.py):      *)
(* the launch monitor registry, the arbitration of the active monitor,     *)
(* the routing of monitor and simulator messages, the self-reconnecting    *)
(* link to GSPro and the shutdown path, as asyncio tasks that interleave   *)
(* at their await points.                                                  *)
(***************************************************************************)
EXTENDS Integers, Sequences, FiniteSets, TLC

\* ------------------------------------------------------------------ bounds
\* launch monitor connections accepted over one run
MaxConn == 2
\* GSPro connections opened over one run
MaxGsConn == 2
\* rules in a configured rule list
MaxRules == 2

\* -------------------------------------------------------- program constants
\* GSProClient.reconnect_delay starts at 1
InitialDelay == 1
\* min(30, reconnect_delay * 2)
MaxDelay == 30
\* player information message of GSPro Connect v1
CodePlayerInfo == 201
\* the rejection sent to an inactive monitor
CodeRejected == 400
\* the generic acknowledgement of GSPro
CodeAck == 200

\* ------------------------------------------------------------ basic values
NoMon == 0
NoConn == 0
Listener == 0
NoneStr == "<None>"
Monitors == 1..MaxConn
Tasks == 0..MaxConn
Conns == 1..MaxGsConn

Min(a, b) == IF a < b THEN a ELSE b

\* a Python dict as a set of <<key, value>> pairs; dict.get(key) with None as default
Get(d, k) == IF \E p \in d : p[1] = k THEN (CHOOSE p \in d : p[1] = k)[2] ELSE NoneStr
HasKey(d, k) == \E p \in d : p[1] = k

\* ------------------------------------------------------- names as char lists
Digit(d) ==
    CASE d = 0 -> "0" [] d = 1 -> "1" [] d = 2 -> "2" [] d = 3 -> "3" [] d = 4 -> "4"
      [] d = 5 -> "5" [] d = 6 -> "6" [] d = 7 -> "7" [] d = 8 -> "8" [] OTHER -> "9"

RECURSIVE Decimal(_)
Decimal(n) == IF n < 10 THEN <<Digit(n)>> ELSE Decimal(n \div 10) \o <<Digit(n % 10)>>

\* f"LM_{len(self.launch_monitors) + 1}"
GeneratedName(count) == <<"L", "M", "_">> \o Decimal(count + 1)

\* Python's   pattern in name   on strings
Contains(pattern, s) ==
    \E k \in 0..(Len(s) - Len(pattern)) : SubSeq(s, k + 1, k + Len(pattern)) = pattern

NoName == <<>>
NameLM1 == <<"L", "M", "_", "1">>
NameLM2 == <<"L", "M", "_", "2">>
\* the name parameter of a connecting monitor: absent, or supplied
NameParams == {NoName, NameLM1, NameLM2}

\* ------------------------------------------------------------------- rules
DefaultRules ==
    << [player_attribute |-> "Handed", attribute_value |-> "RH", monitor_pattern |-> <<"1">>],
       [player_attribute |-> "Handed", attribute_value |-> "LH", monitor_pattern |-> <<"2">>] >>

Member(m, lms) == \E j \in 1..Len(lms) : lms[j] = m

\* for monitor in self.launch_monitors: if monitor_pattern in monitor.name: return monitor
RECURSIVE FirstMonitorMatching(_, _, _, _)
FirstMonitorMatching(pattern, lms, names, j) ==
    IF j > Len(lms) THEN NoMon
    ELSE IF Contains(pattern, names[lms[j]]) THEN lms[j]
    ELSE FirstMonitorMatching(pattern, lms, names, j + 1)

\* a rule with a missing or empty field is skipped
RuleComplete(rule) ==
    rule.player_attribute # "" /\ rule.attribute_value # "" /\ rule.monitor_pattern # <<>>

RuleMatchesPlayer(rule, player_info) ==
    RuleComplete(rule) /\ Get(player_info, rule.player_attribute) = rule.attribute_value

\* a faulty variant: the scan does not return at the first hit, a later hit replaces it
RECURSIVE ScanRulesLastHit(_, _, _, _, _)
ScanRulesLastHit(rules, k, player_info, lms, names) ==
    IF k > Len(rules) THEN NoMon
    ELSE LET hit == IF RuleMatchesPlayer(rules[k], player_info)
                    THEN FirstMonitorMatching(rules[k].monitor_pattern, lms, names, 1)
                    ELSE NoMon
             later == ScanRulesLastHit(rules, k + 1, player_info, lms, names)
         IN  IF later # NoMon THEN later ELSE hit

\* for rule in self.player_monitor_rules: ... the first rule that matches the player
\* and finds a monitor returns it
RECURSIVE ScanRules(_, _, _, _, _)
ScanRules(rules, k, player_info, lms, names) ==
    IF k > Len(rules) THEN NoMon
    ELSE LET hit == IF RuleMatchesPlayer(rules[k], player_info)
                    THEN FirstMonitorMatching(rules[k].monitor_pattern, lms, names, 1)
                    ELSE NoMon
         IN  IF hit # NoMon THEN hit
             ELSE ScanRules(rules, k + 1, player_info, lms, names)

\* a faulty variant: no fallback to the first monitor
DetermineWithoutFallback(player_info, lms, rules, names) ==
    IF player_info = {} \/ lms = <<>> THEN NoMon
    ELSE ScanRules(rules, 1, player_info, lms, names)

determine_active_monitor_for_player(player_info, lms, rules, names) ==
    IF player_info = {} \/ lms = <<>> THEN NoMon
    ELSE LET m == ScanRules(rules, 1, player_info, lms, names)
         IN  IF m # NoMon THEN m ELSE lms[1]

\* ---------------------------------------------------------------- registry
RemoveFrom(lms, m) == SelectSeq(lms, LAMBDA x : x # m)

\* a faulty variant: the previously active monitor keeps its flag
SetActiveKeepOld(lms, act, ref, m) ==
    IF Member(m, lms) THEN [act |-> [act EXCEPT ![m] = TRUE], ref |-> m]
    ELSE [act |-> act, ref |-> ref]

set_active_monitor(lms, act, ref, m) ==
    IF Member(m, lms)
    THEN [act |-> [(IF ref # NoMon THEN [act EXCEPT ![ref] = FALSE] ELSE act)
                       EXCEPT ![m] = TRUE],
          ref |-> m]
    ELSE [act |-> act, ref |-> ref]

\* a faulty variant: the reference is promoted, the promoted monitor's flag is not set
RemoveWithoutFlag(lms, act, ref, m) ==
    IF Member(m, lms)
    THEN LET rest == RemoveFrom(lms, m)
         IN  IF ref = m /\ rest # <<>>
             THEN [lms |-> rest, act |-> act, ref |-> rest[1]]
             ELSE IF rest = <<>> THEN [lms |-> rest, act |-> act, ref |-> NoMon]
             ELSE [lms |-> rest, act |-> act, ref |-> ref]
    ELSE [lms |-> lms, act |-> act, ref |-> ref]

\* a faulty variant: the elif is an else, the reference is cleared whenever the removed
\* monitor was not the active one
RemoveElseClears(lms, act, ref, m) ==
    IF Member(m, lms)
    THEN LET rest == RemoveFrom(lms, m)
         IN  IF ref = m /\ rest # <<>>
             THEN [lms |-> rest, act |-> [act EXCEPT ![rest[1]] = TRUE], ref |-> rest[1]]
             ELSE [lms |-> rest, act |-> act, ref |-> NoMon]
    ELSE [lms |-> lms, act |-> act, ref |-> ref]

\* a faulty variant: no promotion, the reference stays on the removed monitor
RemoveLeavesReference(lms, act, ref, m) ==
    IF Member(m, lms)
    THEN LET rest == RemoveFrom(lms, m)
         IN  IF rest = <<>> THEN [lms |-> rest, act |-> act, ref |-> NoMon]
             ELSE [lms |-> rest, act |-> act, ref |-> ref]
    ELSE [lms |-> lms, act |-> act, ref |-> ref]

\* a faulty variant: the reference is kept when the last monitor goes
RemoveNeverClears(lms, act, ref, m) ==
    IF Member(m, lms)
    THEN LET rest == RemoveFrom(lms, m)
         IN  IF ref = m /\ rest # <<>>
             THEN [lms |-> rest, act |-> [act EXCEPT ![rest[1]] = TRUE], ref |-> rest[1]]
             ELSE [lms |-> rest, act |-> act, ref |-> ref]
    ELSE [lms |-> lms, act |-> act, ref |-> ref]

remove_launch_monitor(lms, act, ref, m) ==
    IF Member(m, lms)
    THEN LET rest == RemoveFrom(lms, m)
         IN  IF ref = m /\ rest # <<>>
             THEN [lms |-> rest, act |-> [act EXCEPT ![rest[1]] = TRUE], ref |-> rest[1]]
             ELSE IF rest = <<>> THEN [lms |-> rest, act |-> act, ref |-> NoMon]
             ELSE [lms |-> rest, act |-> act, ref |-> ref]
    ELSE [lms |-> lms, act |-> act, ref |-> ref]

\* a faulty variant: every new monitor is made the active one
AddAlwaysActivates(lms, act, ref, names, m, nameParam) ==
    LET nm == IF nameParam = NoName THEN GeneratedName(Len(lms)) ELSE nameParam
        l2 == Append(lms, m)
        s  == set_active_monitor(l2, [act EXCEPT ![m] = FALSE], ref, m)
    IN  [lms |-> l2, act |-> s.act, ref |-> s.ref, names |-> [names EXCEPT ![m] = nm]]

\* the new monitor object m gets the supplied or a generated name; the first
\* monitor of the list is made active
add_launch_monitor(lms, act, ref, names, m, nameParam) ==
    LET nm == IF nameParam = NoName THEN GeneratedName(Len(lms)) ELSE nameParam
        l2 == Append(lms, m)
        a2 == [act EXCEPT ![m] = FALSE]
        s  == IF Len(l2) = 1 THEN set_active_monitor(l2, a2, ref, m)
              ELSE [act |-> a2, ref |-> ref]
    IN  [lms |-> l2, act |-> s.act, ref |-> s.ref, names |-> [names EXCEPT ![m] = nm]]

\* ---------------------------------------------------------------- messages
\* A JSON message is kept by what the router probes in it: whether it parses,
\* its top-level keys, Code, Player, the words Header.MessageType contains,
\* PlayerInfo.Name, ShotData.PlayerName, ShotDataOptions.ContainsBallData and
\* ShotDataOptions.IsHeartBeat. The state holds the message's id only.
Blank ==
    [valid |-> TRUE, code |-> 0, keys |-> {}, player |-> {}, mtype |-> {},
     pname |-> "", sname |-> "", cbd |-> FALSE, hb |-> FALSE]

NoMsg == "none"
Reject400 == "reject400"

MonMsgIds ==
    {"bad_json", "heartbeat", "shot", "shot_legacy", "shot_opts", "hb_shot",
     "pinfo_alice", "pinfo_noname", "pinfo_shot_bob", "generic"}

SimMsgIds ==
    {"bad_json", "p201_rh", "p201_lh", "p201_empty", "p201_club", "code201_bare",
     "ack200", "sim_pinfo_alice", "sim_shot_bob"}

MsgOf(id) ==
    CASE id = "bad_json" -> [Blank EXCEPT !.valid = FALSE]
      [] id = "heartbeat" -> [Blank EXCEPT !.keys = {"DeviceID", "ShotDataOptions"}, !.hb = TRUE]
      [] id = "shot" ->
           [Blank EXCEPT !.keys = {"DeviceID", "BallData", "ClubData", "ShotDataOptions"},
                         !.cbd = TRUE]
      [] id = "shot_legacy" -> [Blank EXCEPT !.keys = {"ballData"}]
      [] id = "shot_opts" -> [Blank EXCEPT !.keys = {"ShotDataOptions"}, !.cbd = TRUE]
      [] id = "hb_shot" ->
           [Blank EXCEPT !.keys = {"BallData", "ShotDataOptions"}, !.cbd = TRUE, !.hb = TRUE]
      [] id = "pinfo_alice" ->
           [Blank EXCEPT !.keys = {"Header", "PlayerInfo"}, !.mtype = {"PlayerInfo"},
                         !.pname = "Alice"]
      [] id = "pinfo_noname" ->
           [Blank EXCEPT !.keys = {"Header", "PlayerInfo"}, !.mtype = {"PlayerInfo"}]
      [] id = "pinfo_shot_bob" ->
           [Blank EXCEPT !.keys = {"Header", "PlayerInfo", "shotData"},
                         !.mtype = {"PlayerInfo"}, !.pname = "Bob"]
      [] id = "generic" -> [Blank EXCEPT !.keys = {"DeviceID"}]
      [] id = "p201_rh" ->
           [Blank EXCEPT !.code = CodePlayerInfo, !.keys = {"Code", "Message", "Player"},
                         !.player = {<<"Handed", "RH">>, <<"Club", "DR">>}]
      [] id = "p201_lh" ->
           [Blank EXCEPT !.code = CodePlayerInfo, !.keys = {"Code", "Message", "Player"},
                         !.player = {<<"Handed", "LH">>}]
      [] id = "p201_empty" ->
           [Blank EXCEPT !.code = CodePlayerInfo, !.keys = {"Code", "Player"}]
      [] id = "p201_club" ->
           [Blank EXCEPT !.code = CodePlayerInfo, !.keys = {"Code", "Player"},
                         !.player = {<<"Club", "DR">>}]
      [] id = "code201_bare" -> [Blank EXCEPT !.code = CodePlayerInfo, !.keys = {"Code"}]
      [] id = "ack200" -> [Blank EXCEPT !.code = CodeAck, !.keys = {"Code"}]
      [] id = "sim_pinfo_alice" ->
           [Blank EXCEPT !.keys = {"Header", "PlayerInfo"}, !.mtype = {"PlayerInfo"},
                         !.pname = "Alice"]
      [] id = "sim_shot_bob" ->
           [Blank EXCEPT !.keys = {"Header", "ShotData"}, !.mtype = {"ShotData"},
                         !.sname = "Bob"]
      [] id = Reject400 -> [Blank EXCEPT !.code = CodeRejected, !.keys = {"Code", "Message"}]
      [] OTHER -> Blank

\* "PlayerInfo" in Header.MessageType, with a non-empty PlayerInfo.Name
is_player_info(msg) == "PlayerInfo" \in msg.mtype /\ msg.pname # ""

is_shot_data(msg) ==
    \/ "BallData" \in msg.keys
    \/ "ballData" \in msg.keys
    \/ "shotData" \in msg.keys
    \/ ("ShotDataOptions" \in msg.keys /\ msg.cbd)

is_heartbeat(msg) == "ShotDataOptions" \in msg.keys /\ msg.hb

\* a faulty variant: the active flag is not consulted
RouteIgnoringActive(msg, isActive) == "gspro"

\* a faulty variant: a heartbeat of an inactive monitor is gated like a shot
RouteGatingHeartbeat(msg, isActive) ==
    IF is_shot_data(msg) \/ is_heartbeat(msg)
    THEN (IF isActive THEN "gspro" ELSE "reject")
    ELSE "gspro"

\* the if / elif / else of handle_launch_monitor_message: where a parsed
\* message goes, given the sender's active flag at that moment
RouteMonitorMessage(msg, isActive) ==
    IF is_heartbeat(msg) THEN "gspro"
    ELSE IF is_shot_data(msg) THEN (IF isActive THEN "gspro" ELSE "reject")
    ELSE "gspro"

\* self.gspro.send_message(message): the raw text received is what is written
ForwardedPayload(id) == id

\* json.dumps({"Code": 400, "Message": "Shot ignored - ..."})
RejectionPayload == Reject400

\* ------------------------------------------------------------------- state
VARIABLES
    launch_monitors,       \* GSProProxy.launch_monitors: the monitor objects, in order
    active_monitor,        \* GSProProxy.active_monitor: a monitor object or NoMon
    player_monitor_rules,  \* GSProProxy.player_monitor_rules
    name,                  \* LaunchMonitor.name of each monitor object
    player_name,           \* LaunchMonitor.player_name (NoneStr: None)
    active,                \* LaunchMonitor.active
    open,                  \* whether the monitor's websocket is still open
    nextMon,               \* monitor objects created so far
    connected,             \* GSProClient.connected
    reconnect_delay,       \* GSProClient.reconnect_delay
    websocket,             \* GSProClient.websocket: a connection or NoConn
    connState,             \* each GSPro connection: "unused", "open", "closedOK", "closedErr"
    nextConn,              \* GSPro connections opened so far
    pc,                    \* the await each task is suspended at
    cur,                   \* the message each task is handling
    tconn,                 \* the GSPro connection a task writes to or reads from
    bmode,                 \* the listener's delivery: "pinfo", "raw", "all", "target"
    bidx,                  \* the index of the listener's list iterator
    btarget,               \* the monitor the listener is sending to
    biter,                 \* the list object iterated, once stop() has rebound the attribute
    bsent,                 \* the monitors the running delivery has sent to, in order
    spc,                   \* where stop() is
    sidx,                  \* the index of stop()'s list iterator
    starget,               \* the monitor stop() is closing
    sconn,                 \* the connection disconnect() is closing
    exited,                \* the process has ended
    prevFail,              \* the delay slept by the latest connect attempt if it failed, else 0
    last                   \* what the latest step did

vars ==
    <<launch_monitors, active_monitor, player_monitor_rules, name, player_name, active,
      open, nextMon, connected, reconnect_delay, websocket, connState, nextConn, pc, cur,
      tconn, bmode, bidx, btarget, biter, bsent, spc, sidx, starget, sconn, exited,
      prevFail, last>>

registryVars == <<launch_monitors, active_monitor, name, player_name, active>>
linkVars == <<connected, reconnect_delay, websocket, connState, nextConn>>
listenVars == <<bmode, bidx, btarget, biter, bsent>>
stopVars == <<spc, sidx, starget, sconn, exited>>

\* what a step did that the state does not keep: a write to GSPro, a send to a
\* monitor, a backoff sleep, a removal or a dropped message. The operation, the task, the message,
\* the monitor or connection concerned (for a failed connect: the delay the
\* attempt before it slept, 0 if that one succeeded), whether the send went
\* through, the delay slept, a flag (the removed monitor was the active one, the
\* send ended its delivery) and the monitors the delivery has sent to
EvR(op, task, msg, arg, ok, delay, flag, to, route) ==
    [op |-> op, task |-> task, msg |-> msg, arg |-> arg, ok |-> ok, delay |-> delay,
     flag |-> flag, to |-> to, route |-> route]

Ev(op, task, msg, arg, ok, delay, flag, to) ==
    EvR(op, task, msg, arg, ok, delay, flag, to, "")

\* a step that puts nothing on a wire, sleeps no backoff and removes no monitor
Quiet == Ev("quiet", Listener, NoMsg, NoMon, TRUE, 0, FALSE, <<>>)

\* the listener's loop iterates self.launch_monitors itself, or the list object
\* that attribute held before stop() rebound it
LiveList == [live |-> TRUE, list |-> <<>>]

Init ==
    /\ launch_monitors = <<>>
    /\ active_monitor = NoMon
    /\ player_monitor_rules = DefaultRules
    /\ name = [m \in Monitors |-> NoName]
    /\ player_name = [m \in Monitors |-> NoneStr]
    /\ active = [m \in Monitors |-> FALSE]
    /\ open = [m \in Monitors |-> FALSE]
    /\ nextMon = 0
    /\ connected = FALSE
    /\ reconnect_delay = InitialDelay
    /\ websocket = NoConn
    /\ connState = [c \in Conns |-> "unused"]
    /\ nextConn = 0
    /\ pc = [t \in Tasks |-> IF t = Listener THEN "gs_connect" ELSE "idle"]
    /\ cur = [t \in Tasks |-> NoMsg]
    /\ tconn = [t \in Tasks |-> NoConn]
    /\ bmode = "none"
    /\ bidx = 0
    /\ btarget = NoMon
    /\ biter = LiveList
    /\ bsent = <<>>
    /\ spc = "idle"
    /\ sidx = 0
    /\ starget = NoMon
    /\ sconn = NoConn
    /\ exited = FALSE
    /\ prevFail = 0
    /\ last = Quiet

\* -------------------------------------------------- launch monitor connections
\* handle_launch_monitor_connection up to its   async for message in websocket
Accept(np) ==
    /\ ~exited
    /\ nextMon < MaxConn
    /\ LET m == nextMon + 1
           r == add_launch_monitor(launch_monitors, active, active_monitor, name, m, np)
       IN  /\ launch_monitors' = r.lms
           /\ active' = r.act
           /\ active_monitor' = r.ref
           /\ name' = r.names
           /\ nextMon' = m
           /\ open' = [open EXCEPT ![m] = TRUE]
           /\ pc' = [pc EXCEPT ![m] = "recv"]
           /\ last' = Quiet
    /\ UNCHANGED <<player_monitor_rules, player_name, linkVars, cur, tconn, listenVars,
                   stopVars, prevFail>>

\* a faulty variant: the write is started without looking at connected
EnterSendUnchecked(t) == "gs_write"

\* the first await of GSProClient.send_message, entered from task t
EnterSend(t) == IF connected THEN "gs_write" ELSE "gs_connect"

\* a faulty variant: an unparseable message is routed like any other
MonitorRouteUnparsed(msg, isActive) == RouteMonitorMessage(msg, isActive)

\* json.loads raises for an unparseable message and the handler only logs;
\* a parsed message takes the if / elif / else
MonitorRoute(msg, isActive) ==
    IF msg.valid THEN RouteMonitorMessage(msg, isActive) ELSE "drop"

\* a faulty variant: a player information with an empty name counts too
AnnouncesAnyName(msg) == msg.valid /\ "PlayerInfo" \in msg.mtype

\* the player information branch of handle_launch_monitor_message applies
AnnouncesPlayer(msg) == msg.valid /\ is_player_info(msg)

\* handle_launch_monitor_message up to its first await
MonitorMessage(i, id) ==
    /\ pc[i] = "recv"
    /\ open[i]
    /\ LET msg == MsgOf(id)
           pinfo == AnnouncesPlayer(msg)
           s == IF pinfo
                THEN set_active_monitor(launch_monitors, active, active_monitor, i)
                ELSE [act |-> active, ref |-> active_monitor]
           route == MonitorRoute(msg, s.act[i])
       IN  /\ active' = s.act
           /\ active_monitor' = s.ref
           /\ player_name' = IF pinfo THEN [player_name EXCEPT ![i] = msg.pname]
                             ELSE player_name
           /\ pc' = [pc EXCEPT ![i] = CASE route = "gspro" -> EnterSend(i)
                                        [] route = "reject" -> "lm_write"
                                        [] OTHER -> "recv"]
           /\ cur' = [cur EXCEPT ![i] = IF route = "drop" THEN NoMsg ELSE id]
           /\ tconn' = [tconn EXCEPT ![i] = IF route = "gspro" /\ connected
                                            THEN websocket ELSE NoConn]
           /\ last' = IF route = "drop"
                      THEN Ev("drop", i, id, i, TRUE, 0, FALSE, <<>>)
                      ELSE Quiet
    /\ UNCHANGED <<launch_monitors, player_monitor_rules, name, open, nextMon, linkVars,
                   listenVars, stopVars, prevFail>>

\* a faulty variant: a failed write leaves connected as it is
GsWriteFailureIgnored(i) ==
    /\ i \in Monitors
    /\ pc[i] = "gs_write"
    /\ last' = Ev("gs_write", i, ForwardedPayload(cur[i]), tconn[i],
                  connState[tconn[i]] = "open", 0, FALSE, <<>>)
    /\ pc' = [pc EXCEPT ![i] = "recv"]
    /\ cur' = [cur EXCEPT ![i] = NoMsg]
    /\ tconn' = [tconn EXCEPT ![i] = NoConn]
    /\ UNCHANGED <<registryVars, player_monitor_rules, open, nextMon, linkVars,
                   listenVars, stopVars, prevFail>>

\* await self.websocket.send(message) in GSProClient.send_message, and the
\* except clauses it can end in
GsWrite(i) ==
    /\ i \in Monitors
    /\ pc[i] = "gs_write"
    /\ LET ok == connState[tconn[i]] = "open"
       IN  /\ connected' = IF ok THEN connected ELSE FALSE
           /\ last' = Ev("gs_write", i, ForwardedPayload(cur[i]), tconn[i], ok, 0,
                         FALSE, <<>>)
    /\ pc' = [pc EXCEPT ![i] = "recv"]
    /\ cur' = [cur EXCEPT ![i] = NoMsg]
    /\ tconn' = [tconn EXCEPT ![i] = NoConn]
    /\ UNCHANGED <<registryVars, player_monitor_rules, open, nextMon, reconnect_delay,
                   websocket, connState, nextConn, listenVars, stopVars, prevFail>>

\* await monitor.send_message(json.dumps(response)) for a shot of an inactive monitor
LmWrite(i) ==
    /\ pc[i] = "lm_write"
    /\ last' = Ev("lm_write", i, RejectionPayload, i, open[i], 0, FALSE, <<>>)
    /\ pc' = [pc EXCEPT ![i] = "recv"]
    /\ cur' = [cur EXCEPT ![i] = NoMsg]
    /\ UNCHANGED <<registryVars, player_monitor_rules, open, nextMon, linkVars, tconn,
                   listenVars, stopVars, prevFail>>

\* the client goes away
MonitorClose(i) ==
    /\ i \in Monitors
    /\ pc[i] \notin {"idle", "done", "exit"}
    /\ open[i]
    /\ open' = [open EXCEPT ![i] = FALSE]
    /\ last' = Quiet
    /\ UNCHANGED <<registryVars, player_monitor_rules, nextMon, linkVars, pc, cur, tconn,
                   listenVars, stopVars, prevFail>>

\* the async for ends: finally: self.remove_launch_monitor(monitor)
MonitorEnd(i) ==
    /\ pc[i] = "recv"
    /\ ~open[i]
    /\ LET r == remove_launch_monitor(launch_monitors, active, active_monitor, i)
       IN  /\ launch_monitors' = r.lms
           /\ active' = r.act
           /\ active_monitor' = r.ref
           /\ last' = Ev("remove", i, NoMsg, i, Member(i, launch_monitors), 0,
                         active_monitor = i, launch_monitors)
    /\ pc' = [pc EXCEPT ![i] = "done"]
    /\ UNCHANGED <<player_monitor_rules, name, player_name, open, nextMon, linkVars, cur,
                   tconn, listenVars, stopVars, prevFail>>

\* ------------------------------------------------------------- GSPro link
\* GSProClient.connect: websockets.connect(uri) succeeded
ConnectOk(t) ==
    /\ pc[t] = "gs_connect"
    /\ nextConn < MaxGsConn
    /\ LET c == nextConn + 1
       IN  /\ nextConn' = c
           /\ connState' = [connState EXCEPT ![c] = "open"]
           /\ websocket' = c
           /\ tconn' = [tconn EXCEPT ![t] = c]
           /\ last' = Quiet
    /\ connected' = TRUE
    /\ reconnect_delay' = InitialDelay
    /\ pc' = [pc EXCEPT ![t] = IF t = Listener THEN "l_recv" ELSE "gs_write"]
    /\ prevFail' = 0
    /\ UNCHANGED <<registryVars, player_monitor_rules, open, nextMon, cur, listenVars,
                   stopVars>>

\* a faulty variant: the failure is raised to the caller instead of retried
ConnectFailGivesUp(t) ==
    /\ pc[t] = "gs_connect"
    /\ connected' = FALSE
    /\ pc' = [pc EXCEPT ![t] = IF t = Listener THEN "l_resleep" ELSE "recv"]
    /\ cur' = [cur EXCEPT ![t] = NoMsg]
    /\ prevFail' = reconnect_delay
    /\ last' = Ev("connect_fail", t, NoMsg, prevFail, FALSE, 0, FALSE, <<>>)
    /\ UNCHANGED <<registryVars, player_monitor_rules, open, nextMon, reconnect_delay,
                   websocket, connState, nextConn, tconn, listenVars, stopVars>>

\* GSProClient.connect: websockets.connect(uri) failed; sleep(self.reconnect_delay)
ConnectFail(t) ==
    /\ pc[t] = "gs_connect"
    /\ connected' = FALSE
    /\ pc' = [pc EXCEPT ![t] = "gs_sleep"]
    /\ prevFail' = reconnect_delay
    /\ last' = Ev("connect_fail", t, NoMsg, prevFail, FALSE, reconnect_delay, FALSE, <<>>)
    /\ UNCHANGED <<registryVars, player_monitor_rules, open, nextMon, reconnect_delay,
                   websocket, connState, nextConn, cur, tconn, listenVars, stopVars>>

\* min(30, self.reconnect_delay * 2)
NextDelay(d) == Min(MaxDelay, d * 2)

\* GSProClient.connect: the sleep is over, the delay doubles, the loop tries again
ConnectWake(t) ==
    /\ pc[t] = "gs_sleep"
    /\ reconnect_delay' = NextDelay(reconnect_delay)
    /\ pc' = [pc EXCEPT ![t] = "gs_connect"]
    /\ last' = Quiet
    /\ UNCHANGED <<registryVars, player_monitor_rules, open, nextMon, connected, websocket,
                   connState, nextConn, cur, tconn, listenVars, stopVars, prevFail>>

\* GSPro ends a connection, in order (kind "closedOK") or not ("closedErr")
GsClose(c, kind) ==
    /\ c \in Conns
    /\ connState[c] = "open"
    /\ ~exited
    /\ connState' = [connState EXCEPT ![c] = kind]
    /\ last' = Quiet
    /\ UNCHANGED <<registryVars, player_monitor_rules, open, nextMon, connected,
                   reconnect_delay, websocket, nextConn, pc, cur, tconn, listenVars,
                   stopVars, prevFail>>

\* ---------------------------------------------------------- GSPro listener
RECURSIVE ScanByPlayer(_, _, _, _)
ScanByPlayer(lms, pnames, p, j) ==
    IF j > Len(lms) THEN NoMon
    ELSE IF pnames[lms[j]] = p THEN lms[j]
    ELSE ScanByPlayer(lms, pnames, p, j + 1)

get_launch_monitor_by_player(lms, pnames, p) == ScanByPlayer(lms, pnames, p, 1)

\* for monitor in self.launch_monitors: monitor.active = False
DeactivateAll(lms, act) == [m \in DOMAIN act |-> IF Member(m, lms) THEN FALSE ELSE act[m]]

\* a faulty variant: no monitor is deactivated before the new one is set
ArbitrateWithoutDeactivation(lms, act, ref, rules, names, player_info) ==
    LET am == determine_active_monitor_for_player(player_info, lms, rules, names)
    IN  IF am # NoMon THEN SetActiveKeepOld(lms, act, ref, am)
        ELSE [act |-> act, ref |-> ref]

\* a faulty variant: the handler is suspended after the deactivation, and the
\* other tasks see the registry before the activation
ArbitrateDeactivateOnly(lms, act, ref, rules, names, player_info) ==
    [act |-> DeactivateAll(lms, act), ref |-> ref]

\* handle_gspro_message, Code 201 with a Player: determine the monitor,
\* deactivate all, activate the one determined
ArbitratePlayerInfo(lms, act, ref, rules, names, player_info) ==
    LET am == determine_active_monitor_for_player(player_info, lms, rules, names)
        a1 == DeactivateAll(lms, act)
    IN  IF am # NoMon THEN set_active_monitor(lms, a1, ref, am)
        ELSE [act |-> a1, ref |-> ref]

is_player_info_v1(msg) == msg.code = CodePlayerInfo /\ "Player" \in msg.keys

\* the player name a GSPro message carries in its other formats ("" for none)
ExtractPlayerName(msg) ==
    IF "PlayerInfo" \in msg.mtype THEN msg.pname
    ELSE IF "ShotData" \in msg.mtype THEN msg.sname
    ELSE ""

\* a faulty variant: the player name is not looked up, the active monitor is taken
TargetActiveOnly(msg, lms, pnames, ref) == ref

\* the monitor a GSPro message that is no player information goes to
TargetMonitor(msg, lms, pnames, ref) ==
    LET p == ExtractPlayerName(msg)
        byPlayer == IF p # "" THEN get_launch_monitor_by_player(lms, pnames, p) ELSE NoMon
    IN  IF byPlayer # NoMon THEN byPlayer ELSE ref

\* handle_gspro_message up to its first await
ListenerMessage(id) ==
    /\ pc[Listener] = "l_recv"
    /\ connState[tconn[Listener]] = "open"
    /\ LET msg == MsgOf(id)
           p201 == msg.valid /\ is_player_info_v1(msg)
           s == IF p201
                THEN ArbitratePlayerInfo(launch_monitors, active, active_monitor,
                                         player_monitor_rules, name, msg.player)
                ELSE [act |-> active, ref |-> active_monitor]
           target == TargetMonitor(msg, launch_monitors, player_name, active_monitor)
           mode == IF ~msg.valid THEN "raw"
                   ELSE IF p201 THEN "pinfo"
                   ELSE IF target # NoMon THEN "target"
                   ELSE "all"
           first == IF mode = "target" THEN target
                    ELSE IF launch_monitors # <<>> THEN launch_monitors[1]
                    ELSE NoMon
       IN  /\ active' = s.act
           /\ active_monitor' = s.ref
           /\ pc' = [pc EXCEPT ![Listener] = IF first = NoMon THEN "l_recv" ELSE "l_send"]
           /\ cur' = [cur EXCEPT ![Listener] = IF first = NoMon THEN NoMsg ELSE id]
           /\ bmode' = IF first = NoMon THEN "none" ELSE mode
           /\ btarget' = first
           /\ bidx' = IF first = NoMon THEN 0 ELSE 1
           /\ last' = Quiet
    /\ bsent' = <<>>
    /\ biter' = LiveList
    /\ UNCHANGED <<launch_monitors, player_monitor_rules, name, player_name, open, nextMon,
                   linkVars, tconn, stopVars, prevFail>>

\* await monitor.send_message(message) of a delivery, and the next turn of its loop
ListenerSend ==
    /\ pc[Listener] = "l_send"
    /\ LET ok == open[btarget]
           list == IF biter.live THEN launch_monitors ELSE biter.list
           sent2 == Append(bsent, btarget)
           more == bmode # "target" /\ (ok \/ bmode = "pinfo") /\ bidx < Len(list)
           raised == ~ok /\ bmode = "raw"
       IN  IF more
           THEN /\ btarget' = list[bidx + 1]
                /\ bidx' = bidx + 1
                /\ bsent' = sent2
                /\ last' = EvR("l_send", Listener, cur[Listener], btarget, ok, 0, FALSE,
                               sent2, bmode)
                /\ UNCHANGED <<pc, cur, bmode, biter, connected>>
           ELSE /\ pc' = [pc EXCEPT ![Listener] = IF raised THEN "l_resleep" ELSE "l_recv"]
                /\ connected' = IF raised THEN FALSE ELSE connected
                /\ cur' = [cur EXCEPT ![Listener] = NoMsg]
                /\ bmode' = "none"
                /\ btarget' = NoMon
                /\ bidx' = 0
                /\ bsent' = <<>>
                /\ biter' = LiveList
                /\ last' = EvR("l_send", Listener, cur[Listener], btarget, ok, 0, TRUE,
                               sent2, bmode)
    /\ UNCHANGED <<registryVars, player_monitor_rules, open, nextMon, reconnect_delay,
                   websocket, connState, nextConn, tconn, stopVars, prevFail>>

\* the async for over the GSPro connection ends, silently or with ConnectionClosed
ListenerClosed ==
    /\ pc[Listener] = "l_recv"
    /\ connState[tconn[Listener]] \in {"closedOK", "closedErr"}
    /\ connected' = IF connState[tconn[Listener]] = "closedErr" THEN FALSE ELSE connected
    /\ pc' = [pc EXCEPT ![Listener] = "l_resleep"]
    /\ last' = Quiet
    /\ UNCHANGED <<registryVars, player_monitor_rules, open, nextMon, reconnect_delay,
                   websocket, connState, nextConn, cur, tconn, listenVars, stopVars,
                   prevFail>>

\* asyncio.sleep(1) is over: the top of the while True of listen_to_gspro
ListenerWake ==
    /\ pc[Listener] = "l_resleep"
    /\ pc' = [pc EXCEPT ![Listener] = IF connected THEN "l_recv" ELSE "gs_connect"]
    /\ tconn' = [tconn EXCEPT ![Listener] = IF connected THEN websocket ELSE @]
    /\ last' = Quiet
    /\ UNCHANGED <<registryVars, player_monitor_rules, open, nextMon, linkVars, cur,
                   listenVars, stopVars, prevFail>>

\* ---------------------------------------------------------------- shutdown
\* stop(): launch_monitors = [] and active_monitor = None, after the closing loop;
\* a delivery of the listener still iterates the list object it started on
StopRebind ==
    /\ launch_monitors' = <<>>
    /\ active_monitor' = NoMon
    /\ biter' = IF pc[Listener] = "l_send" /\ biter.live
                THEN [live |-> FALSE, list |-> launch_monitors]
                ELSE biter

\* the shutdown signal: stop() up to its first await
StopBegin ==
    /\ spc = "idle"
    /\ ~exited
    /\ IF launch_monitors = <<>>
       THEN /\ StopRebind
            /\ spc' = "gather"
            /\ UNCHANGED <<sidx, starget>>
       ELSE /\ spc' = "closing"
            /\ starget' = launch_monitors[1]
            /\ sidx' = 1
            /\ UNCHANGED <<launch_monitors, active_monitor, biter>>
    /\ last' = Quiet
    /\ UNCHANGED <<player_monitor_rules, name, player_name, active, open, nextMon,
                   linkVars, pc, cur, tconn, bmode, bidx, btarget, bsent, sconn, exited,
                   prevFail>>

\* stop(): await monitor.websocket.close(), and the next turn of the loop
StopClose ==
    /\ spc = "closing"
    /\ open' = [open EXCEPT ![starget] = FALSE]
    /\ IF sidx < Len(launch_monitors)
       THEN /\ starget' = launch_monitors[sidx + 1]
            /\ sidx' = sidx + 1
            /\ UNCHANGED <<launch_monitors, active_monitor, biter, spc>>
       ELSE /\ StopRebind
            /\ spc' = "gather"
            /\ starget' = NoMon
            /\ sidx' = 0
    /\ last' = Quiet
    /\ UNCHANGED <<player_monitor_rules, name, player_name, active, nextMon, linkVars, pc,
                   cur, tconn, bmode, bidx, btarget, bsent, sconn, exited, prevFail>>

\* GSProClient.disconnect, run by asyncio.gather: up to its await
StopDisconnect ==
    /\ spc = "gather"
    /\ spc' = IF websocket # NoConn /\ connected THEN "gs_closing" ELSE "done"
    /\ sconn' = IF websocket # NoConn /\ connected THEN websocket ELSE NoConn
    /\ last' = Quiet
    /\ UNCHANGED <<registryVars, player_monitor_rules, open, nextMon, linkVars, pc, cur,
                   tconn, listenVars, sidx, starget, exited, prevFail>>

\* GSProClient.disconnect: the connection is closed, connected = False
StopDisconnected ==
    /\ spc = "gs_closing"
    /\ connState' = [connState EXCEPT ![sconn] = IF @ = "open" THEN "closedOK" ELSE @]
    /\ connected' = FALSE
    /\ spc' = "done"
    /\ sconn' = NoConn
    /\ last' = Quiet
    /\ UNCHANGED <<registryVars, player_monitor_rules, open, nextMon, reconnect_delay,
                   websocket, nextConn, pc, cur, tconn, listenVars, sidx, starget, exited,
                   prevFail>>

\* main() returns after stop(): asyncio.run cancels every task that is left
Exit ==
    /\ spc = "done"
    /\ ~exited
    /\ exited' = TRUE
    /\ pc' = [t \in Tasks |-> "exit"]
    /\ last' = Quiet
    /\ UNCHANGED <<registryVars, player_monitor_rules, open, nextMon, linkVars, cur, tconn,
                   listenVars, spc, sidx, starget, sconn, prevFail>>

\* ----------------------------------------------------------- specification
\* every step of the proxy and of its environment
Next ==
    \/ \E np \in NameParams : Accept(np)
    \/ \E i \in Monitors, id \in MonMsgIds : MonitorMessage(i, id)
    \/ \E i \in Monitors : GsWrite(i)
    \/ \E i \in Monitors : LmWrite(i)
    \/ \E i \in Monitors : MonitorClose(i)
    \/ \E i \in Monitors : MonitorEnd(i)
    \/ \E t \in Tasks : ConnectOk(t)
    \/ \E t \in Tasks : ConnectFail(t)
    \/ \E t \in Tasks : ConnectWake(t)
    \/ \E c \in Conns, kind \in {"closedOK", "closedErr"} : GsClose(c, kind)
    \/ \E id \in SimMsgIds : ListenerMessage(id)
    \/ ListenerSend
    \/ ListenerClosed
    \/ ListenerWake
    \/ StopBegin
    \/ StopClose
    \/ StopDisconnect
    \/ StopDisconnected
    \/ Exit

Spec == Init /\ [][Next]_vars

\* The state Init reaches by ConnectOk(Listener): the listener has connected to
\* GSPro and waits for its messages, no monitor has connected yet.
ConnectedStart(rules) ==
    /\ launch_monitors = <<>>
    /\ active_monitor = NoMon
    /\ player_monitor_rules = rules
    /\ name = [m \in Monitors |-> NoName]
    /\ player_name = [m \in Monitors |-> NoneStr]
    /\ active = [m \in Monitors |-> FALSE]
    /\ open = [m \in Monitors |-> FALSE]
    /\ nextMon = 0
    /\ connected = TRUE
    /\ reconnect_delay = InitialDelay
    /\ websocket = 1
    /\ connState = [c \in Conns |-> IF c = 1 THEN "open" ELSE "unused"]
    /\ nextConn = 1
    /\ pc = [t \in Tasks |-> IF t = Listener THEN "l_recv" ELSE "idle"]
    /\ cur = [t \in Tasks |-> NoMsg]
    /\ tconn = [t \in Tasks |-> IF t = Listener THEN 1 ELSE NoConn]
    /\ bmode = "none"
    /\ bidx = 0
    /\ btarget = NoMon
    /\ biter = LiveList
    /\ bsent = <<>>
    /\ spc = "idle"
    /\ sidx = 0
    /\ starget = NoMon
    /\ sconn = NoConn
    /\ exited = FALSE
    /\ prevFail = 0
    /\ last = Quiet

InitConnected == ConnectedStart(DefaultRules)

\* The specifications below are Spec with the environment narrowed to the
\* inputs a group of properties is about, so that every interleaving of the
\* steps kept is explored.

\* a monitor connects, and later goes away
MonitorsComeAndGo(names) ==
    \/ \E np \in names : Accept(np)
    \/ \E i \in Monitors : MonitorClose(i)
    \/ \E i \in Monitors : MonitorEnd(i)

\* ---- shot gating: monitors send shots, also shots that are heartbeats or
\* player information, to a connected link
GateMsgIds == {"shot", "shot_legacy", "shot_opts", "hb_shot", "pinfo_shot_bob"}

NextGate ==
    \/ MonitorsComeAndGo({NoName})
    \/ \E i \in Monitors, id \in GateMsgIds : MonitorMessage(i, id)
    \/ \E i \in Monitors : GsWrite(i)
    \/ \E i \in Monitors : LmWrite(i)

SpecGate == InitConnected /\ [][NextGate]_vars

\* ---- heartbeats of active and inactive monitors, from before the link is up
BeatMsgIds == {"heartbeat", "hb_shot", "shot"}

NextBeat ==
    \/ MonitorsComeAndGo({NoName})
    \/ \E i \in Monitors, id \in BeatMsgIds : MonitorMessage(i, id)
    \/ \E i \in Monitors : GsWrite(i)
    \/ \E i \in Monitors : LmWrite(i)
    \/ \E t \in Tasks : ConnectOk(t)

SpecBeat == Init /\ [][NextBeat]_vars

\* ---- arbitration: GSPro names the player, monitors send shots
ArbSimIds == {"p201_rh", "p201_lh", "p201_empty"}

NextArb ==
    \/ MonitorsComeAndGo(NameParams)
    \/ \E i \in Monitors : MonitorMessage(i, "shot")
    \/ \E i \in Monitors : GsWrite(i)
    \/ \E i \in Monitors : LmWrite(i)
    \/ \E id \in ArbSimIds : ListenerMessage(id)
    \/ ListenerSend

SpecArb == InitConnected /\ [][NextArb]_vars

\* ---- the registry under every operation that changes it, shutdown included
RegistrySimIds == {"p201_lh", "p201_empty"}

NextRegistry ==
    \/ MonitorsComeAndGo({NoName})
    \/ \E i \in Monitors : MonitorMessage(i, "pinfo_alice")
    \/ \E i \in Monitors : GsWrite(i)
    \/ \E t \in Tasks : ConnectOk(t)
    \/ \E id \in RegistrySimIds : ListenerMessage(id)
    \/ ListenerSend
    \/ StopBegin
    \/ StopClose
    \/ StopDisconnect
    \/ StopDisconnected
    \/ Exit

SpecRegistry == InitConnected /\ [][NextRegistry]_vars

\* ---- the link: GSPro refuses and accepts connections while the listener and
\* the monitors' sends both need it
NextLink ==
    \/ Accept(NoName)
    \/ \E i \in Monitors : MonitorMessage(i, "generic")
    \/ \E i \in Monitors : GsWrite(i)
    \/ \E t \in Tasks : ConnectOk(t)
    \/ \E t \in Tasks : ConnectFail(t)
    \/ \E t \in Tasks : ConnectWake(t)

SpecLink == Init /\ [][NextLink]_vars

\* ------------------------------------------------------------------ claims
\* the step in which monitor i's handler takes message cur'[i] up to its first await
Routed(i) == pc[i] = "recv" /\ cur[i] = NoMsg /\ cur'[i] # NoMsg

C2_HeartbeatForwarded ==
    [][ /\ \A i \in Monitors :
              (Routed(i) /\ is_heartbeat(MsgOf(cur'[i])))
              => /\ pc'[i] = (IF connected THEN "gs_write" ELSE "gs_connect")
                 /\ last'.op = "quiet"
        /\ \A i \in Monitors :
              (pc[i] = "gs_connect" /\ pc'[i] \notin {"gs_connect", "gs_sleep"}
                                    /\ is_heartbeat(MsgOf(cur[i])) /\ ~exited')
              => (pc'[i] = "gs_write" /\ cur'[i] = cur[i] /\ connState'[tconn'[i]] = "open")
        /\ \A i \in Monitors :
              (pc[i] = "gs_write" /\ pc'[i] # "gs_write" /\ is_heartbeat(MsgOf(cur[i]))
                                  /\ ~exited')
              => /\ last'.op = "gs_write"
                 /\ last'.task = i
                 /\ last'.msg = cur[i]
                 /\ last'.arg = tconn[i]
        /\ (last'.op = "lm_write" /\ last' # last)
              => ~is_heartbeat(MsgOf(cur[last'.task]))
      ]_vars

\* the heartbeat of an inactive monitor has been written to GSPro
C2_Witness ==
    /\ last.op = "gs_write"
    /\ last.ok
    /\ is_heartbeat(MsgOf(last.msg))
    /\ Member(last.task, launch_monitors)
    /\ ~active[last.task]

\* the monitors of the registry whose active flag is set
ActiveInRegistry == {m \in Monitors : Member(m, launch_monitors) /\ active[m]}

\* C3: in every reachable state, whatever adds, removals, player information
\* of monitors, player information of GSPro and stop() have run, at most one
\* monitor of the registry has active = true.
C3_SingleActive == Cardinality(ActiveInRegistry) <= 1

\* two monitors are registered and the active one is the second: the flag has
\* moved off the monitor that add made active
C3_Witness ==
    /\ Len(launch_monitors) = 2
    /\ active[launch_monitors[2]]
    /\ ~active[launch_monitors[1]]
    /\ active_monitor = launch_monitors[2]

\* the step in which the listener's handler takes GSPro message cur'[Listener]
\* up to its first await (with no monitor registered the handler ends at once)
Arbitrated ==
    /\ pc[Listener] = "l_recv"
    /\ cur[Listener] = NoMsg
    /\ cur'[Listener] # NoMsg
    /\ is_player_info_v1(MsgOf(cur'[Listener]))

\* C4 as stated: after every arbitration that a Code 201 message with a Player
\* substructure triggers, whatever the substructure contains, and after every
\* explicit activation by a monitor's player information, exactly one monitor
\* has active = true if at least one monitor is connected.
C4_ExactlyOneActive ==
    [][ /\ (Arbitrated /\ launch_monitors # <<>>)
              => Cardinality(ActiveInRegistry') = 1
        /\ \A i \in Monitors :
              (Routed(i) /\ is_player_info(MsgOf(cur'[i])) /\ Member(i, launch_monitors))
              => Cardinality(ActiveInRegistry') = 1
      ]_vars

\* ---- rule selection: the proxy is constructed with any configured rule list
\* (load_player_monitor_rules), monitors connect under any names, GSPro names
\* players
Rule(attribute, value, pattern) ==
    [player_attribute |-> attribute, attribute_value |-> value, monitor_pattern |-> pattern]

ConfigRules ==
    { Rule("Handed", "RH", <<"1">>), Rule("Handed", "RH", <<"2">>),
      Rule("Handed", "RH", <<"3">>), Rule("Club", "DR", <<"2">>),
      Rule("Handed", "LH", <<"2">>), Rule("Handed", "RH", <<>>) }

RuleLists == UNION {[1..n -> ConfigRules] : n \in 0..MaxRules}

SelectSimIds == {"p201_rh", "p201_lh", "p201_club", "p201_empty"}

InitSelect == \E rules \in RuleLists : ConnectedStart(rules)

NextSelect ==
    \/ \E np \in NameParams : Accept(np)
    \/ \E id \in SelectSimIds : ListenerMessage(id)
    \/ ListenerSend

SpecSelect == InitSelect /\ [][NextSelect]_vars

\* the player informations GSPro sends
PlayerInfos == {MsgOf(id).player : id \in SelectSimIds}

\* what the configured rules and the registry of this state select for a player
Selected(info) ==
    determine_active_monitor_for_player(info, launch_monitors, player_monitor_rules, name)

\* the first monitor in insertion order whose name contains rule k's pattern
RuleTarget(k) ==
    FirstMonitorMatching(player_monitor_rules[k].monitor_pattern, launch_monitors, name, 1)

BothMatch(k1, k2, info) ==
    /\ k1 < k2
    /\ RuleMatchesPlayer(player_monitor_rules[k1], info)
    /\ RuleMatchesPlayer(player_monitor_rules[k2], info)

\* rule k is the earliest rule that matches the player and finds a live monitor
EarliestHit(k, info) ==
    /\ RuleMatchesPlayer(player_monitor_rules[k], info)
    /\ RuleTarget(k) # NoMon
    /\ \A k0 \in 1..(k - 1) :
          ~(RuleMatchesPlayer(player_monitor_rules[k0], info) /\ RuleTarget(k0) # NoMon)

\* C5 (as amended): for any rule list, player info and registry, if rules R1
\* (earlier) and R2 (later) both match the player info and R1 is the earliest
\* matching rule for which a live monitor's name contains the pattern, the
\* monitor selected is R1's target, the first monitor in insertion order whose
\* name contains R1's pattern, whatever R2's target is.
C5_RulePrecedence ==
    \A info \in PlayerInfos :
        \A k1, k2 \in 1..Len(player_monitor_rules) :
            (BothMatch(k1, k2, info) /\ EarliestHit(k1, info))
            => Selected(info) = RuleTarget(k1)

\* GSPro has named a right-handed player that two rules match, the rules'
\* targets are two different monitors, and the handler has activated the
\* earlier rule's
C5_Witness ==
    /\ pc[Listener] = "l_send"
    /\ cur[Listener] = "p201_rh"
    /\ Len(player_monitor_rules) >= 2
    /\ BothMatch(1, 2, MsgOf("p201_rh").player)
    /\ RuleTarget(1) # NoMon
    /\ RuleTarget(2) # NoMon
    /\ RuleTarget(1) # RuleTarget(2)
    /\ RuleTarget(2) = launch_monitors[1]
    /\ active_monitor = RuleTarget(1)
    /\ active[RuleTarget(1)]

\* C5 as stated: whenever an earlier rule R1 and a later rule R2 both match the
\* player info, the monitor selected is R1's target
C5_Original ==
    \A info \in PlayerInfos :
        \A k1, k2 \in 1..Len(player_monitor_rules) :
            BothMatch(k1, k2, info) => Selected(info) = RuleTarget(k1)

\* get_launch_monitor_by_name: the first monitor of the registry with that name
RECURSIVE ScanByName(_, _, _, _)
ScanByName(lms, names, n, j) ==
    IF j > Len(lms) THEN NoMon
    ELSE IF names[lms[j]] = n THEN lms[j]
    ELSE ScanByName(lms, names, n, j + 1)

get_launch_monitor_by_name(lms, names, n) == ScanByName(lms, names, n, 1)

\* exactly two monitors are connected, one named LM_1 and one named LM_2
ConnectedLM1AndLM2 ==
    /\ Len(launch_monitors) = 2
    /\ {name[launch_monitors[1]], name[launch_monitors[2]]} = {NameLM1, NameLM2}

LM1 == get_launch_monitor_by_name(launch_monitors, name, NameLM1)
LM2 == get_launch_monitor_by_name(launch_monitors, name, NameLM2)

\* C6: with the built-in rules and monitors LM_1 and LM_2 connected, the
\* handler of {Code: 201, Player: {Handed: RH}} leaves LM_1 active and LM_2
\* inactive, that of {Code: 201, Player: {Handed: LH}} leaves LM_2 active and
\* LM_1 inactive, whichever was active before; and a shot that the active
\* monitor then sends is handed to GSPro and written as it was received.
C6_ArbitrationSwitch ==
    [][ /\ (Arbitrated /\ ConnectedLM1AndLM2 /\ player_monitor_rules = DefaultRules
                       /\ cur'[Listener] = "p201_rh")
              => (active'[LM1] /\ ~active'[LM2] /\ active_monitor' = LM1)
        /\ (Arbitrated /\ ConnectedLM1AndLM2 /\ player_monitor_rules = DefaultRules
                       /\ cur'[Listener] = "p201_lh")
              => (active'[LM2] /\ ~active'[LM1] /\ active_monitor' = LM2)
        /\ \A i \in Monitors :
              (Routed(i) /\ cur'[i] = "shot" /\ active[i])
              => /\ pc'[i] = (IF connected THEN "gs_write" ELSE "gs_connect")
                 /\ cur'[i] = "shot"
                 /\ connected => tconn'[i] = websocket
        /\ \A i \in Monitors :
              (pc[i] = "gs_write" /\ pc'[i] # "gs_write" /\ cur[i] = "shot" /\ ~exited')
              => /\ last'.op = "gs_write"
                 /\ last'.task = i
                 /\ last'.msg = "shot"
                 /\ last'.arg = tconn[i]
      ]_vars

\* LM_2 connected second, GSPro named a left-handed player, and the shot LM_2
\* then sent has been written to GSPro
C6_Witness ==
    /\ ConnectedLM1AndLM2
    /\ launch_monitors[2] = LM2
    /\ active[LM2]
    /\ ~active[LM1]
    /\ active_monitor = LM2
    /\ last.op = "gs_write"
    /\ last.task = LM2
    /\ last.msg = "shot"
    /\ last.ok

\* the step that ended the delivery of a GSPro player information
PlayerInfoDelivered ==
    /\ last.op = "l_send"
    /\ last.flag
    /\ last.route = "pinfo"
    /\ is_player_info_v1(MsgOf(last.msg))

\* C7 as stated: when a Code 201 message with a Player substructure has been
\* processed, the message has been sent, as received, to every monitor of the
\* registry, active or not.
C7_BroadcastToAll ==
    PlayerInfoDelivered
    => \A m \in Monitors :
          Member(m, launch_monitors) => \E j \in 1..Len(last.to) : last.to[j] = m

\* the step in which monitor i's connection handler ends and removes the monitor
Removed(i) == pc[i] = "recv" /\ pc'[i] = "done"

\* the registry's monitors other than i, as a set
Remaining(i) == {m \in Monitors : Member(m, launch_monitors) /\ m # i}

\* the position of the first monitor other than i in the registry
FirstRemaining(i) ==
    CHOOSE j \in 1..Len(launch_monitors) :
        launch_monitors[j] # i /\ \A k \in 1..(j - 1) : launch_monitors[k] = i

C9_RemovalFrame ==
    [][ \A i \in Monitors :
            (Removed(i) /\ Member(i, launch_monitors) /\ active_monitor # i)
            => /\ ~Member(i, launch_monitors')
               /\ Len(launch_monitors') = Len(launch_monitors) - 1
               /\ \A j \in 1..Len(launch_monitors') :
                     launch_monitors'[j] =
                         launch_monitors[IF \E k \in 1..j : launch_monitors[k] = i
                                         THEN j + 1 ELSE j]
               /\ active_monitor' = active_monitor
               /\ \A m \in Remaining(i) : active'[m] = active[m]
      ]_vars

\* the inactive one of two monitors has been removed; the other is still the
\* active reference and active
C9_Witness ==
    /\ last.op = "remove"
    /\ last.ok
    /\ ~last.flag
    /\ Len(last.to) = 2
    /\ Len(launch_monitors) = 1
    /\ launch_monitors[1] # last.task
    /\ active_monitor = launch_monitors[1]
    /\ active[launch_monitors[1]]

\* C10 as stated: across the whole system, the delay slept after a failed
\* connect attempt is 1 when the attempt before it succeeded (or there was
\* none), and twice the delay slept by the attempt before it, capped at 30,
\* when that one failed too: 1, 2, 4, 8, 16, 30, 30, ...; never above 30 or
\* below 1.
C10_BackoffSequence ==
    last.op = "connect_fail"
    => /\ last.delay >= InitialDelay
       /\ last.delay <= MaxDelay
       /\ last.delay = (IF last.arg = 0 THEN InitialDelay ELSE Min(MaxDelay, 2 * last.arg))

\* ---- the link under the scheduling the event loop guarantees: a sleep ends,
\* and GSPro, tried again and again, accepts a connection in the end
SpecLinkFair ==
    /\ SpecLink
    /\ \A t \in Tasks : WF_vars(ConnectWake(t)) /\ SF_vars(ConnectOk(t))

\* task t is inside GSProClient.connect
InConnect(t) == pc[t] \in {"gs_connect", "gs_sleep"}

\* C11: connect() returns only with the link connected, on the connection it
\* has just opened; a failed attempt leaves its caller inside connect(), asleep
\* and then trying again, and ends nothing; and when GSPro accepts connections
\* in the end, the link becomes connected.
C11_ConnectNeverGivesUp ==
    /\ [][ \A t \in Tasks :
              /\ (InConnect(t) /\ ~InConnect(t)')
                    => /\ pc[t] = "gs_connect"
                       /\ connected'
                       /\ websocket' = tconn'[t]
                       /\ connState'[websocket'] = "open"
                       /\ pc'[t] = (IF t = Listener THEN "l_recv" ELSE "gs_write")
              /\ (pc[t] = "gs_connect" /\ last'.op = "connect_fail" /\ last'.task = t
                                       /\ pc'[t] # "gs_connect")
                    => (pc'[t] = "gs_sleep" /\ cur'[t] = cur[t] /\ ~exited')
              /\ (pc[t] = "gs_sleep" /\ pc'[t] # "gs_sleep") => pc'[t] = "gs_connect"
         ]_vars
    /\ \A t \in Tasks : (InConnect(t) /\ nextConn < MaxGsConn) ~> connected

\* the listener's connect() has returned on a fresh connection after attempts
\* had failed, while a monitor's send still sleeps in its own connect()
C11_Witness ==
    /\ connected
    /\ pc[Listener] = "l_recv"
    /\ tconn[Listener] = websocket
    /\ connState[websocket] = "open"
    /\ \E m \in Monitors : pc[m] = "gs_sleep" /\ cur[m] = "generic"

\* C12: a send called while the link is not connected writes nothing and waits
\* in connect(); it goes on to its write only by a connect attempt of its own
\* that succeeded; every write is started with the link connected, on the
\* link's current connection, and nothing is written to GSPro in any other way.
C12_ConnectBeforeSend ==
    [][ \A i \in Monitors :
           /\ (Routed(i) /\ ~connected /\ pc'[i] \notin {"recv", "lm_write"})
                 => (pc'[i] = "gs_connect" /\ last'.op = "quiet")
           /\ (pc[i] = "gs_connect" /\ pc'[i] = "gs_write")
                 => /\ nextConn' = nextConn + 1
                    /\ websocket' = nextConn'
                    /\ connState'[websocket'] = "open"
           /\ (pc[i] # "gs_write" /\ pc'[i] = "gs_write")
                 => (connected' /\ tconn'[i] = websocket' /\ tconn'[i] # NoConn)
           /\ (last'.op = "gs_write" /\ last'.task = i /\ last' # last)
                 => (pc[i] = "gs_write" /\ last'.arg = tconn[i])
      ]_vars

\* the listener is still inside connect(); a monitor's send found the link
\* down, opened the one connection there is and has written its message to it
C12_Witness ==
    /\ InConnect(Listener)
    /\ nextConn = 1
    /\ last.op = "gs_write"
    /\ last.ok
    /\ last.arg = 1
    /\ last.msg = "generic"

\* ---- outages: GSPro ends connections, in order or not, while the listener
\* reads and monitors send
NextOutage ==
    \/ Accept(NoName)
    \/ \E i \in Monitors : MonitorMessage(i, "generic")
    \/ \E i \in Monitors : GsWrite(i)
    \/ \E t \in Tasks : ConnectOk(t)
    \/ \E c \in Conns, kind \in {"closedOK", "closedErr"} : GsClose(c, kind)
    \/ ListenerClosed
    \/ ListenerWake

SpecOutage == InitConnected /\ [][NextOutage]_vars

\* C13 as stated, in the part a finite run refutes: whenever the connection the
\* listener reads from ends, by an error or by an orderly close, the link state
\* becomes disconnected (so that the listener calls connect() again).
C13_ReceiveLoopRecovery ==
    [][ (pc[Listener] = "l_recv" /\ pc'[Listener] = "l_resleep") => ~connected' ]_vars

\* ---- the multi-active policy. src/main.py has the single-active policy only;
\* activation under the policy switch is taken from the specification
\* (MonitorRegistry.activate, deactivate_all used under single-active only).

\* a faulty variant: the policy is not looked at, the other members are cleared
ActivateClearingOthers(lms, act, ref, m, policy) ==
    IF Member(m, lms)
    THEN [act |-> [x \in DOMAIN act |-> IF x = m THEN TRUE
                                        ELSE IF Member(x, lms) THEN FALSE ELSE act[x]],
          ref |-> m]
    ELSE [act |-> act, ref |-> ref]

\* activate(monitor, policy)
activate(lms, act, ref, m, policy) ==
    IF ~Member(m, lms) THEN [act |-> act, ref |-> ref]
    ELSE IF policy = "single-active"
    THEN [act |-> [x \in DOMAIN act |-> IF x = m THEN TRUE
                                        ELSE IF Member(x, lms) THEN FALSE ELSE act[x]],
          ref |-> m]
    ELSE [act |-> [act EXCEPT ![m] = TRUE], ref |-> m]

\* the arbitration of a Code 201 message under the multi-active policy: no
\* deactivate_all, the monitor selected is activated
ArbitrateMultiActive(lms, act, ref, rules, names, player_info) ==
    LET am == determine_active_monitor_for_player(player_info, lms, rules, names)
    IN  IF am # NoMon THEN activate(lms, act, ref, am, "multi-active")
        ELSE [act |-> act, ref |-> ref]

\* handle_launch_monitor_message up to its first await, under the multi-active policy
MultiActiveMonitorMessage(i, id) ==
    /\ pc[i] = "recv"
    /\ open[i]
    /\ LET msg == MsgOf(id)
           pinfo == msg.valid /\ is_player_info(msg)
           s == IF pinfo
                THEN activate(launch_monitors, active, active_monitor, i, "multi-active")
                ELSE [act |-> active, ref |-> active_monitor]
           route == IF msg.valid THEN RouteMonitorMessage(msg, s.act[i]) ELSE "drop"
       IN  /\ active' = s.act
           /\ active_monitor' = s.ref
           /\ player_name' = IF pinfo THEN [player_name EXCEPT ![i] = msg.pname]
                             ELSE player_name
           /\ pc' = [pc EXCEPT ![i] = CASE route = "gspro" -> EnterSend(i)
                                        [] route = "reject" -> "lm_write"
                                        [] OTHER -> "recv"]
           /\ cur' = [cur EXCEPT ![i] = IF route = "drop" THEN NoMsg ELSE id]
           /\ tconn' = [tconn EXCEPT ![i] = IF route = "gspro" /\ connected
                                            THEN websocket ELSE NoConn]
           /\ last' = Quiet
    /\ UNCHANGED <<launch_monitors, player_monitor_rules, name, open, nextMon, linkVars,
                   listenVars, stopVars, prevFail>>

\* handle_gspro_message for a Code 201 message with a Player, up to its first
\* await, under the multi-active policy
MultiActiveListenerMessage(id) ==
    /\ pc[Listener] = "l_recv"
    /\ connState[tconn[Listener]] = "open"
    /\ MsgOf(id).valid
    /\ is_player_info_v1(MsgOf(id))
    /\ LET s == ArbitrateMultiActive(launch_monitors, active, active_monitor,
                                     player_monitor_rules, name, MsgOf(id).player)
           first == IF launch_monitors # <<>> THEN launch_monitors[1] ELSE NoMon
       IN  /\ active' = s.act
           /\ active_monitor' = s.ref
           /\ pc' = [pc EXCEPT ![Listener] = IF first = NoMon THEN "l_recv" ELSE "l_send"]
           /\ cur' = [cur EXCEPT ![Listener] = IF first = NoMon THEN NoMsg ELSE id]
           /\ bmode' = IF first = NoMon THEN "none" ELSE "pinfo"
           /\ btarget' = first
           /\ bidx' = IF first = NoMon THEN 0 ELSE 1
           /\ last' = Quiet
    /\ bsent' = <<>>
    /\ biter' = LiveList
    /\ UNCHANGED <<launch_monitors, player_monitor_rules, name, player_name, open, nextMon,
                   linkVars, tconn, stopVars, prevFail>>

MultiSimIds == {"p201_rh", "p201_lh"}

NextMulti ==
    \/ MonitorsComeAndGo({NoName})
    \/ \E i \in Monitors, id \in {"pinfo_alice", "shot"} : MultiActiveMonitorMessage(i, id)
    \/ \E i \in Monitors : GsWrite(i)
    \/ \E i \in Monitors : LmWrite(i)
    \/ \E id \in MultiSimIds : MultiActiveListenerMessage(id)
    \/ ListenerSend

SpecMulti == InitConnected /\ [][NextMulti]_vars

\* C14: under the multi-active policy, the activation of monitor M, by M's
\* player information or by the arbitration of a Code 201 message, turns no
\* other monitor's active flag from true to false; two connected monitors can
\* then both be active and have their shots forwarded.
C14_MultiActiveMonotone ==
    [][ /\ \A i \in Monitors :
              (Routed(i) /\ is_player_info(MsgOf(cur'[i])))
              => /\ active'[i]
                 /\ \A m \in Monitors : (m # i /\ active[m]) => active'[m]
        /\ Arbitrated => \A m \in Monitors : active[m] => active'[m]
        /\ \A i \in Monitors :
              (Routed(i) /\ cur'[i] = "shot" /\ active[i])
              => pc'[i] = (IF connected THEN "gs_write" ELSE "gs_connect")
      ]_vars

\* both monitors of the registry are active and the shot of the second, whose
\* activation left the first one active, has been written to GSPro
C14_Witness ==
    /\ Len(launch_monitors) = 2
    /\ active[launch_monitors[1]]
    /\ active[launch_monitors[2]]
    /\ active_monitor = launch_monitors[2]
    /\ last.op = "gs_write"
    /\ last.task = launch_monitors[2]
    /\ last.msg = "shot"
    /\ last.ok

\* C15: in every reachable state active_monitor is cleared or refers to a
\* monitor that is a member of the registry, never to a removed one.
C15_ReferenceLive == active_monitor = NoMon \/ Member(active_monitor, launch_monitors)

\* the monitor the reference pointed to has been removed while another one
\* stayed, and the reference points to the one that stayed
C15_Witness ==
    /\ last.op = "remove"
    /\ last.ok
    /\ last.flag
    /\ ~Member(last.task, launch_monitors)
    /\ active_monitor # NoMon
    /\ active_monitor # last.task
    /\ Member(active_monitor, launch_monitors)

\* C16 as stated: the reference is re-derivable from the active flags: it
\* refers to M exactly when M is the monitor of the registry with active =
\* true, and it is cleared exactly when no monitor has active = true.
C16_ReferenceDerivable ==
    /\ \A m \in Monitors :
          Member(m, launch_monitors) => (active_monitor = m <=> active[m])
    /\ active_monitor = NoMon <=> ActiveInRegistry = {}

\* ---- targeted delivery: monitors announce a player, GSPro sends messages
\* that name a player or none
TargetSimIds == {"ack200", "sim_pinfo_alice", "sim_shot_bob"}

NextTarget ==
    \/ MonitorsComeAndGo({NoName})
    \/ \E i \in Monitors : MonitorMessage(i, "pinfo_alice")
    \/ \E i \in Monitors : GsWrite(i)
    \/ \E id \in TargetSimIds : ListenerMessage(id)
    \/ ListenerSend

SpecTarget == InitConnected /\ [][NextTarget]_vars

\* the positions of the registry whose monitor is registered under player p
Holders(p) == {j \in 1..Len(launch_monitors) : player_name[launch_monitors[j]] = p}

\* the monitor a message naming player p ("": none) is meant for, NoMon if none
ExpectedTarget(p) ==
    IF p # "" /\ Holders(p) # {}
    THEN launch_monitors[CHOOSE j \in Holders(p) : \A k \in Holders(p) : j <= k]
    ELSE active_monitor

\* C17: a well-formed GSPro message that is no Code 201 player information and
\* has a target is sent to exactly one monitor: the monitor registered under
\* the player name it carries if there is one, else the monitor active_monitor
\* refers to; the delivery is that one send and no other monitor is sent it.
C17_TargetedDelivery ==
    [][ /\ \A id \in TargetSimIds :
              (pc[Listener] = "l_recv" /\ cur'[Listener] = id
                   /\ ExpectedTarget(ExtractPlayerName(MsgOf(id))) # NoMon)
              => /\ pc'[Listener] = "l_send"
                 /\ bmode' = "target"
                 /\ btarget' = ExpectedTarget(ExtractPlayerName(MsgOf(id)))
                 /\ Member(btarget', launch_monitors)
                 /\ last'.op = "quiet"
        /\ (pc[Listener] = "l_send" /\ bmode = "target" /\ pc'[Listener] # "l_send"
                                    /\ ~exited')
              => /\ last'.op = "l_send"
                 /\ last'.msg = cur[Listener]
                 /\ last'.arg = btarget
                 /\ last'.to = <<btarget>>
                 /\ last'.flag
                 /\ pc'[Listener] = "l_recv"
        /\ (pc[Listener] = "l_send" /\ bmode = "target")
              => (pc'[Listener] = "l_send" => (btarget' = btarget /\ bsent' = bsent))
      ]_vars

\* a message naming Alice has reached the monitor registered under that name,
\* which is not the monitor active_monitor refers to
C17_Witness ==
    /\ last.op = "l_send"
    /\ last.route = "target"
    /\ last.ok
    /\ last.msg = "sim_pinfo_alice"
    /\ last.to = <<last.arg>>
    /\ Member(last.arg, launch_monitors)
    /\ player_name[last.arg] = "Alice"
    /\ active_monitor # last.arg
    /\ active_monitor # NoMon

\* ---- unparseable GSPro messages: the raw broadcast, with monitors that
\* announce players, come and go, and the listener's way back after a failure
NextRaw ==
    \/ MonitorsComeAndGo({NoName})
    \/ \E i \in Monitors : MonitorMessage(i, "pinfo_alice")
    \/ \E i \in Monitors : GsWrite(i)
    \/ ListenerMessage("bad_json")
    \/ ListenerSend
    \/ ListenerWake
    \/ \E t \in Tasks : ConnectOk(t)

SpecRaw == InitConnected /\ [][NextRaw]_vars

\* C18 as stated: an unparseable GSPro message changes no active flag, no
\* player name and not the active reference, and when its handling is over
\* the raw message has been sent to every monitor of the registry.
C18_RawBroadcast ==
    [][ /\ (pc[Listener] = "l_recv" /\ pc'[Listener] = "l_send")
              => /\ bmode' = "raw"
                 /\ cur'[Listener] = "bad_json"
                 /\ UNCHANGED <<active, player_name, active_monitor>>
        /\ (pc[Listener] = "l_send" /\ bmode = "raw" /\ pc'[Listener] # "l_send")
              => /\ last'.op = "l_send"
                 /\ last'.msg = "bad_json"
                 /\ \A m \in Monitors :
                       Member(m, launch_monitors')
                       => \E j \in 1..Len(last'.to) : last'.to[j] = m
      ]_vars

\* ---- what monitors send in: unparseable text, player information with and
\* without a name, shots
InboundMsgIds == {"bad_json", "pinfo_alice", "pinfo_noname", "pinfo_shot_bob", "shot"}

NextInbound ==
    \/ MonitorsComeAndGo({NoName})
    \/ \E i \in Monitors, id \in InboundMsgIds : MonitorMessage(i, id)
    \/ \E i \in Monitors : GsWrite(i)
    \/ \E i \in Monitors : LmWrite(i)

SpecInbound == InitConnected /\ [][NextInbound]_vars

\* a handler is at or on its way to a send
Sending(i) == pc[i] \in {"gs_write", "gs_connect", "gs_sleep", "lm_write"}

\* C19: an unparseable monitor message is dropped. The step that takes it
\* sends nothing, leaves the registry, every active flag, the active
\* reference, the player names and the link state as they are and leaves the
\* monitor's handler at its receive; no handler is ever at a send with an
\* unparseable message and no write to GSPro or to a monitor carries one.
C19_UnparsedDropped ==
    [][ /\ last'.op = "drop"
              => /\ ~MsgOf(last'.msg).valid
                 /\ pc[last'.task] = "recv"
                 /\ pc'[last'.task] = "recv"
                 /\ cur'[last'.task] = NoMsg
                 /\ UNCHANGED <<launch_monitors, active, active_monitor, player_name, name,
                                open, connected, websocket, reconnect_delay, connState,
                                nextConn, pc, cur, tconn>>
        /\ \A i \in Monitors : Sending(i)' => MsgOf(cur'[i]).valid
        /\ last'.op \in {"gs_write", "lm_write"} => MsgOf(last'.msg).valid
      ]_vars

\* monitor LM_2 of two sent unparseable text while inactive: it is still in the
\* registry and at its receive, and the link is up
C19_Witness ==
    /\ last.op = "drop"
    /\ last.msg = "bad_json"
    /\ pc[last.task] = "recv"
    /\ open[last.task]
    /\ Len(launch_monitors) = 2
    /\ Member(last.task, launch_monitors)
    /\ ~active[last.task]
    /\ active_monitor # last.task
    /\ connected

\* C20: the step in which the handler of a registered monitor M takes a
\* message whose Header.MessageType contains "PlayerInfo" sets M.player_name
\* to the name and makes M the active monitor when PlayerInfo.Name is not
\* empty, and changes no player name, no active flag and not the active
\* reference when it is empty.
C20_MonitorPlayerInfo ==
    [][ \A i \in Monitors :
          (Routed(i) /\ Member(i, launch_monitors) /\ "PlayerInfo" \in MsgOf(cur'[i]).mtype)
          => IF MsgOf(cur'[i]).pname # ""
             THEN /\ player_name'[i] = MsgOf(cur'[i]).pname
                  /\ active'[i]
                  /\ active_monitor' = i
                  /\ \A m \in Monitors \ {i} : player_name'[m] = player_name[m]
             ELSE UNCHANGED <<player_name, active, active_monitor>>
      ]_vars

\* one monitor has announced Alice and is the active one, the other has sent
\* a player information without a name and has neither a name nor the flag
C20_Witness ==
    \E i, j \in Monitors :
        /\ i # j
        /\ Member(i, launch_monitors)
        /\ Member(j, launch_monitors)
        /\ pc[i] = "gs_write"
        /\ cur[i] = "pinfo_alice"
        /\ player_name[i] = "Alice"
        /\ active[i]
        /\ active_monitor = i
        /\ pc[j] = "gs_write"
        /\ cur[j] = "pinfo_noname"
        /\ player_name[j] = NoneStr
        /\ ~active[j]

\* the monitor handlers suspended in   await self.websocket.send(message)
Writers == {i \in Monitors : pc[i] = "gs_write"}

\* C21 as stated: at no time are two monitor handlers inside a write to the
\* GSPro connection.
C21_SerializedSends == Cardinality(Writers) <= 1

\* the step in which a connection is accepted and its monitor added
Added == nextMon' = nextMon + 1

\* C22: every read-modify-write of the active flags and the active reference is
\* one step. The step of a Code 201 arbitration leaves exactly the monitor
\* selected in the state before it active (none if none is selected); the step
\* of a monitor's player information clears the flag of the monitor referred to
\* before it and sets the sender's; the step of an add and the step of a removal
\* are the whole operation on the state before it; and the flags, the reference
\* and the registry change in no other step but those of the shutdown.
C22_AtomicArbitration ==
    [][ /\ Arbitrated
              => LET am == Selected(MsgOf(cur'[Listener]).player)
                 IN  /\ \A m \in Monitors :
                           active'[m] = IF Member(m, launch_monitors) THEN m = am
                                        ELSE active[m]
                     /\ active_monitor' = IF am # NoMon THEN am ELSE active_monitor
                     /\ launch_monitors' = launch_monitors
        /\ \A i \in Monitors :
              (Routed(i) /\ is_player_info(MsgOf(cur'[i])) /\ Member(i, launch_monitors))
              => /\ \A m \in Monitors :
                       active'[m] = IF m = i THEN TRUE
                                    ELSE IF m = active_monitor THEN FALSE
                                    ELSE active[m]
                 /\ active_monitor' = i
                 /\ launch_monitors' = launch_monitors
        /\ \A i \in Monitors :
              (Routed(i) /\ ~is_player_info(MsgOf(cur'[i])))
              => UNCHANGED <<active, active_monitor, launch_monitors>>
        /\ Added
              => /\ launch_monitors' = Append(launch_monitors, nextMon')
                 /\ \A m \in Monitors :
                       active'[m] = IF m = nextMon' THEN launch_monitors = <<>>
                                    ELSE active[m]
                 /\ active_monitor' = IF launch_monitors = <<>> THEN nextMon'
                                      ELSE active_monitor
        /\ \A i \in Monitors :
              (Removed(i) /\ Member(i, launch_monitors))
              => /\ launch_monitors' = RemoveFrom(launch_monitors, i)
                 /\ active_monitor' =
                       IF Remaining(i) = {} THEN NoMon
                       ELSE IF active_monitor = i THEN launch_monitors[FirstRemaining(i)]
                       ELSE active_monitor
                 /\ \A m \in Monitors :
                       active'[m] = IF active_monitor = i /\ Remaining(i) # {}
                                       /\ m = launch_monitors[FirstRemaining(i)]
                                    THEN TRUE ELSE active[m]
        /\ (active' # active \/ active_monitor' # active_monitor
                             \/ launch_monitors' # launch_monitors)
              => \/ Arbitrated
                 \/ Added
                 \/ \E i \in Monitors : Routed(i) \/ Removed(i)
                 \/ spc' # spc
      ]_vars

\* GSPro named a left-handed player while LM_1 was the active monitor: LM_2,
\* which never announced a player, is the one active monitor now
C22_Witness ==
    /\ pc[Listener] = "l_send"
    /\ cur[Listener] = "p201_lh"
    /\ bsent = <<>>
    /\ Len(launch_monitors) = 2
    /\ active[launch_monitors[2]]
    /\ ~active[launch_monitors[1]]
    /\ active_monitor = launch_monitors[2]
    /\ player_name[launch_monitors[2]] = NoneStr
    /\ player_name[launch_monitors[1]] = "Alice"

\* ---- the life of a monitor connection while GSPro refuses and accepts
\* connections: monitors connect, send, close, and their handlers end
NextLife ==
    \/ MonitorsComeAndGo({NoName})
    \/ \E i \in Monitors : MonitorMessage(i, "generic")
    \/ \E i \in Monitors : GsWrite(i)
    \/ \E t \in Tasks : ConnectOk(t)
    \/ \E t \in Tasks : ConnectFail(t)
    \/ \E t \in Tasks : ConnectWake(t)

SpecLife == Init /\ [][NextLife]_vars

\* every step of the proxy that can be taken is taken; whether GSPro accepts
\* a connection is up to GSPro
SpecLifeFair ==
    /\ SpecLife
    /\ \A t \in Tasks : WF_vars(ConnectFail(t)) /\ WF_vars(ConnectWake(t))
    /\ \A i \in Monitors : WF_vars(GsWrite(i)) /\ WF_vars(MonitorEnd(i))

\* C23 as stated: every monitor whose transport has closed is eventually
\* removed from the registry, whatever the state of the link to GSPro.
C23_ClosedMonitorRemoved ==
    \A i \in Monitors :
        (~open[i] /\ Member(i, launch_monitors)) ~> ~Member(i, launch_monitors)

\* ---- sends to monitors that fail: monitors send shots and other messages and
\* close, GSPro sends a message for the active monitor, and the link to GSPro
\* breaks and stays down
FailMsgIds == {"generic", "shot"}

NextFail ==
    \/ MonitorsComeAndGo({NoName})
    \/ \E i \in Monitors, id \in FailMsgIds : MonitorMessage(i, id)
    \/ \E i \in Monitors : GsWrite(i)
    \/ \E i \in Monitors : LmWrite(i)
    \/ \E c \in Conns : GsClose(c, "closedErr")
    \/ \E i \in Monitors : ConnectFail(i)
    \/ \E i \in Monitors : ConnectWake(i)
    \/ ListenerMessage("ack200")
    \/ ListenerSend

SpecFail == InitConnected /\ [][NextFail]_vars

SpecFailFair ==
    /\ SpecFail
    /\ WF_vars(ListenerSend)
    /\ \A i \in Monitors :
          /\ WF_vars(ConnectFail(i)) /\ WF_vars(ConnectWake(i))
          /\ WF_vars(GsWrite(i)) /\ WF_vars(LmWrite(i)) /\ WF_vars(MonitorEnd(i))

\* C24 as stated: a monitor to which a send has failed is removed from the
\* registry.
C24_FailedSendRemoves ==
    \A m \in Monitors :
        (last.op \in {"l_send", "lm_write"} /\ ~last.ok /\ last.arg = m
                                            /\ Member(m, launch_monitors))
        ~> ~Member(m, launch_monitors)

\* C25 as stated: once the shutdown has begun no monitor is added to the
\* registry, and when the process exits every monitor transport and the link
\* to GSPro have been closed.
C25_ShutdownOrdering ==
    [][ /\ spc # "idle" => ~Added
        /\ (~exited /\ exited')
              => /\ \A m \in Monitors : ~open[m]
                 /\ \A c \in Conns : connState[c] # "open"
      ]_vars

\* C26: the step that adds a monitor appends it to the registry; when the
\* registry was empty the new monitor is active and is the active reference,
\* otherwise it is not active and every other active flag and the active
\* reference are as before.
C26_AddActivation ==
    [][ Added
        => /\ launch_monitors' = Append(launch_monitors, nextMon')
           /\ active'[nextMon'] <=> launch_monitors = <<>>
           /\ launch_monitors = <<>> => active_monitor' = nextMon'
           /\ launch_monitors # <<>>
                 => /\ active_monitor' = active_monitor
                    /\ \A m \in Monitors \ {nextMon'} : active'[m] = active[m]
      ]_vars

\* a second monitor has been added next to the active one and is not active
C26_Witness ==
    /\ nextMon = 2
    /\ launch_monitors = <<1, 2>>
    /\ pc[2] = "recv"
    /\ open[2]
    /\ ~active[2]
    /\ active[1]
    /\ active_monitor = 1
    /\ last = Quiet
    /\ pc[Listener] = "l_recv"

\* rule k names an attribute value the player has, and the name of a monitor
\* of the registry contains rule k's pattern
RuleHits(k, info) ==
    /\ Get(info, player_monitor_rules[k].player_attribute)
          = player_monitor_rules[k].attribute_value
    /\ \E j \in 1..Len(launch_monitors) :
          Contains(player_monitor_rules[k].monitor_pattern, name[launch_monitors[j]])

NoRuleHits(info) == \A k \in 1..Len(player_monitor_rules) : ~RuleHits(k, info)

\* C27: for any rule list, player info and registry, no monitor is selected
\* exactly when the player info is empty or the registry is empty; and when
\* neither is empty and no rule matches the player together with a monitor
\* whose name contains its pattern, the first monitor of the registry is
\* selected.
C27_Fallback ==
    \A info \in PlayerInfos :
        /\ Selected(info) = NoMon <=> (info = {} \/ launch_monitors = <<>>)
        /\ (info # {} /\ launch_monitors # <<>> /\ NoRuleHits(info))
              => Selected(info) = launch_monitors[1]

\* GSPro has named a left-handed player; a rule is for left-handed players but
\* no monitor carries its pattern, and the handler has activated the first of
\* the two monitors
C27_Witness ==
    /\ pc[Listener] = "l_send"
    /\ cur[Listener] = "p201_lh"
    /\ bsent = <<>>
    /\ Len(launch_monitors) = 2
    /\ NoRuleHits(MsgOf("p201_lh").player)
    /\ \E k \in 1..Len(player_monitor_rules) :
          RuleMatchesPlayer(player_monitor_rules[k], MsgOf("p201_lh").player)
    /\ active_monitor = launch_monitors[1]
    /\ active[launch_monitors[1]]
    /\ ~active[launch_monitors[2]]

\* C28: when a write to GSPro fails, connected becomes false, the failure ends
\* the handling of the message (the handler is back at its receive and holds
\* no message, so the message is not sent again), and the registry, the active
\* flags, the active reference and the player names are unchanged.
C28_FailedWrite ==
    [][ \A i \in Monitors :
          (pc[i] = "gs_write" /\ pc'[i] # "gs_write" /\ ~exited'
                              /\ connState[tconn[i]] # "open")
          => /\ ~connected'
             /\ last'.op = "gs_write"
             /\ last'.task = i
             /\ ~last'.ok
             /\ pc'[i] = "recv"
             /\ cur'[i] = NoMsg
             /\ \A t \in Tasks \ {i} : cur'[t] = cur[t] /\ pc'[t] = pc[t]
             /\ UNCHANGED registryVars
      ]_vars

\* the write of a registered monitor has failed on a connection GSPro had
\* closed: the link is marked disconnected and the monitor is still registered
C28_Witness ==
    /\ last.op = "gs_write"
    /\ ~last.ok
    /\ ~connected
    /\ connState[last.arg] \in {"closedOK", "closedErr"}
    /\ pc[last.task] = "recv"
    /\ cur[last.task] = NoMsg
    /\ Member(last.task, launch_monitors)
    /\ active_monitor # NoMon

\* ---- shots that wait for the link: GSPro is not connected at the start,
\* monitors send shots and announce players, and whoever needs the link
\* connects
StaleMsgIds == {"shot", "pinfo_alice"}

NextStale ==
    \/ MonitorsComeAndGo({NoName})
    \/ \E i \in Monitors, id \in StaleMsgIds : MonitorMessage(i, id)
    \/ \E i \in Monitors : GsWrite(i)
    \/ \E i \in Monitors : LmWrite(i)
    \/ \E t \in Tasks : ConnectOk(t)
    \/ \E t \in Tasks : ConnectFail(t)
    \/ \E t \in Tasks : ConnectWake(t)

SpecStale == Init /\ [][NextStale]_vars

\* C29 as stated: a shot that is no heartbeat is written to GSPro only while
\* the monitor it came from is active.
C29_ShotWrittenWhileActive ==
    [][ \A i \in Monitors :
          (pc[i] = "gs_write" /\ pc'[i] # "gs_write" /\ last'.op = "gs_write" /\ last'.ok
              /\ is_shot_data(MsgOf(cur[i])) /\ ~is_heartbeat(MsgOf(cur[i])))
          => active[i]
      ]_vars

\* the tasks inside the retry loop of GSProClient.connect
Connecting == {t \in Tasks : InConnect(t)}

\* the GSPro connections that are open
OpenConns == {c \in Conns : connState[c] = "open"}

\* C30 as stated: at most one task is inside connect() at any time, and no
\* second connection to GSPro is opened while one is open.
C30_SingleConnect ==
    /\ Cardinality(Connecting) <= 1
    /\ Cardinality(OpenConns) <= 1

\* C31 as stated: whenever the link is connected, the connection the listener
\* reads from is the connection send_message writes to.
C31_SharedConnection ==
    (connected /\ pc[Listener] \in {"l_recv", "l_send"}) => tconn[Listener] = websocket

\* ---- a player-info broadcast while monitors go away: monitors connect only
\* between two deliveries, so every monitor of the registry at the end of a
\* broadcast was in it at its start
BroadcastSimIds == {"p201_rh", "p201_lh"}

NextBroadcast ==
    \/ pc[Listener] = "l_recv" /\ Accept(NoName)
    \/ \E i \in Monitors : MonitorClose(i)
    \/ \E i \in Monitors : MonitorEnd(i)
    \/ \E id \in BroadcastSimIds : ListenerMessage(id)
    \/ ListenerSend

SpecBroadcast == InitConnected /\ [][NextBroadcast]_vars

\* the number of sends of the latest delivery that went to monitor m
TimesSent(m) == Cardinality({j \in 1..Len(last.to) : last.to[j] = m})

\* C32 as stated: when a player-info broadcast is over, every monitor that
\* stayed connected and registered through it has been sent the message
\* exactly once, also when another monitor was removed meanwhile.
C32_BroadcastSurvivors ==
    PlayerInfoDelivered
    => \A m \in Monitors : (Member(m, launch_monitors) /\ open[m]) => TimesSent(m) = 1

\* C33 as stated: a send to a monitor that fails leaves the link to GSPro as
\* it is: connected keeps its value and the listener does not leave its
\* receive loop for a reconnect.
C33_MonitorFailureKeepsLink ==
    [][ (last'.op \in {"l_send", "lm_write"} /\ ~last'.ok)
        => /\ connected' = connected
           /\ pc'[Listener] \notin {"l_resleep", "gs_connect"}
      ]_vars

\* C34 as stated: when a monitor is added or removed after a GSPro player
\* information has been processed, no monitor is left active other than the
\* one that the same player information selects on the registry as it is then.
C34_StableArbitration ==
    [][ (PlayerInfoDelivered /\ (Added \/ \E i \in Monitors : Removed(i)))
        => \A m \in Monitors :
              (Member(m, launch_monitors') /\ active'[m])
              => m = determine_active_monitor_for_player(
                        MsgOf(last.msg).player, launch_monitors',
                        player_monitor_rules, name')
      ]_vars

\* C35: the active reference is cleared exactly when the registry is empty,
\* and no delivery of a GSPro message ever takes the broadcast that
\* handle_gspro_message falls back to when it finds no target.
C35_FallbackOnlyWhenEmpty ==
    /\ active_monitor = NoMon <=> launch_monitors = <<>>
    /\ bmode # "all"
    /\ last.route # "all"

\* the last monitor, which was the active one, has been removed: the registry
\* is empty and the reference is cleared
C35_Witness ==
    /\ last.op = "remove"
    /\ last.ok
    /\ last.flag
    /\ launch_monitors = <<>>
    /\ active_monitor = NoMon
    /\ nextMon = 2
    /\ pc[Listener] = "l_recv"

\* C36 as stated: no two monitors of the registry have the same name.
C36_UniqueNames ==
    \A j, k \in 1..Len(launch_monitors) :
        j # k => name[launch_monitors[j]] # name[launch_monitors[k]]

\* C37 as stated: a message that carries ball data and comes from a monitor
\* that is not active is not handed to GSPro, whatever else it carries.
C37_NoGatingBypass ==
    [][ \A i \in Monitors :
          (Routed(i) /\ is_shot_data(MsgOf(cur'[i])) /\ ~active[i] /\ ~active'[i])
          => pc'[i] \notin {"gs_write", "gs_connect"}
      ]_vars

\* C38 as stated: a player information of a monitor (Header.MessageType with
\* "PlayerInfo", non-empty PlayerInfo.Name) is never written to GSPro.
C38_PlayerInfoConsumed ==
    last.op = "gs_write" => ~is_player_info(MsgOf(last.msg))

\* ---- rejections while GSPro is unreachable: monitors send heartbeats and
\* shots, in any order, from before the link is up
RejectMsgIds == {"heartbeat", "shot"}

NextReject ==
    \/ MonitorsComeAndGo({NoName})
    \/ \E i \in Monitors, id \in RejectMsgIds : MonitorMessage(i, id)
    \/ \E i \in Monitors : GsWrite(i)
    \/ \E i \in Monitors : LmWrite(i)
    \/ \E t \in Tasks : ConnectOk(t)
    \/ \E t \in Tasks : ConnectFail(t)
    \/ \E t \in Tasks : ConnectWake(t)

SpecReject == Init /\ [][NextReject]_vars

\* every step of the proxy that can be taken is taken; whether GSPro accepts
\* a connection is up to GSPro
SpecRejectFair ==
    /\ SpecReject
    /\ \A t \in Tasks : WF_vars(ConnectFail(t)) /\ WF_vars(ConnectWake(t))
    /\ \A i \in Monitors :
          WF_vars(GsWrite(i)) /\ WF_vars(LmWrite(i)) /\ WF_vars(MonitorEnd(i))

\* C39 as stated: the shot of an inactive monitor is eventually answered with
\* the rejection, whether GSPro is reachable or not and whatever the monitor
\* sent before it. A handler takes the next message of its monitor, the shot,
\* only at its receive: the handler of a connected monitor that stays inactive
\* is eventually at its receive or at the send of a rejection.
C39_ShotEventuallyRejected ==
    \A i \in Monitors :
        (Member(i, launch_monitors) /\ open[i] /\ ~active[i])
        ~> (pc[i] \in {"recv", "lm_write"} \/ ~open[i] \/ active[i])

\* C40 as stated: once stop() has completed, the registry is empty, the active
\* reference is cleared and the link to GSPro is not connected, until the
\* process exits.
C40_StoppedStaysStopped ==
    spc = "done"
    => /\ launch_monitors = <<>>
       /\ active_monitor = NoMon
       /\ ~connected

====
